---- MODULE Spec2Model ----
(***************************************************************************)
(* The webhook relay of src/app.py: auto_reply and the functions it calls, *)
(* served by concurrent request threads over one process-wide conversation *)
(* store.                                                                  *)
(*                                                                         *)
(* A Python str is a sequence of one-character strings, so that strip()    *)
(* and the joining of prompt lines are computed.  A Python value read from *)
(* a JSON body is a record [t, v]: t is its type ("none" for an absent     *)
(* key, "null", "str", "num" for any other scalar, "list") and v the       *)
(* characters of a str (<<>> otherwise).                                   *)
(*                                                                         *)
(* Spec is the threaded server, SpecFair the same with every thread        *)
(* scheduled fairly, SpecSerial a server that takes one request at a time. *)
(* SpecResolver, SpecNormalizer, SpecPrompt and SpecExtract call one       *)
(* function of app.py on its own, on arguments drawn from a set of inputs  *)
(* wider than the requests of Spec give it.                                *)
(***************************************************************************)
EXTENDS Integers, Sequences, FiniteSets, TLC

\* ------------------------------------------------------------------ bounds
\* The requests received in all, when they are served concurrently.
MaxRequests == 2

\* The requests received in all, when they are served one at a time.
MaxSerialRequests == 6

\* The longest message list given to _messages_to_prompt on its own.
MaxPromptTurns == 10

\* The request threads.
Threads == {"t1", "t2"}

\* ----------------------------------------------------------------- strings
Digits == <<"1", "2", "3", "4", "5", "6", "7", "8", "9">>

RECURSIVE LStrip(_)
LStrip(s) == IF s = <<>> THEN s
             ELSE IF Head(s) \in {" ", "\n"} THEN LStrip(Tail(s)) ELSE s

RECURSIVE RStrip(_)
RStrip(s) == IF s = <<>> THEN s
             ELSE IF s[Len(s)] \in {" ", "\n"} THEN RStrip(SubSeq(s, 1, Len(s) - 1)) ELSE s

\* str.strip()
Strip(s) == RStrip(LStrip(s))

\* ------------------------------------------------------------------ values
None == [t |-> "none", v |-> <<>>]
Str(s) == [t |-> "str", v |-> s]
Num == [t |-> "num", v |-> <<>>]
Null == [t |-> "null", v |-> <<>>]
List == [t |-> "list", v |-> <<>>]

\* Python truthiness of a value: an absent key (dict.get gives None), null and
\* "" are false; "num" stands for a non-zero number and "list" for a non-empty list.
Truthy(x) == IF x.t \in {"none", "null"} THEN FALSE
             ELSE IF x.t = "str" THEN x.v # <<>> ELSE TRUE

\* The text the n-th request carries and the text the backend answers it with:
\* each is unique to the request, so a stored turn names the request it is of.
UserText(n) == <<"h", Digits[n]>>
ReplyText(n) == <<"r", Digits[n]>>

\* ----------------------------------------------------------------- payload
\* The keys auto_reply and _extract_message_text read.  A body is a record
\* [t, ids, top, data, payload]: t = "dict" for a JSON object or a form, "list"
\* for any other non-empty JSON value, "none" for no body; ids and top give the
\* values of the sender keys and of the text keys at the top level; data and
\* payload are the two wrappers, each [t, f] with f the text keys inside it.
SenderKeys == <<"jid", "wa_id", "from">>
candidates == <<"text", "message", "body", "MESSAGE", "MESSAGE-TEXT", "message-text", "content">>
CandidateSet == {candidates[i] : i \in 1..Len(candidates)}
SenderKeySet == {SenderKeys[i] : i \in 1..Len(SenderKeys)}

NoKeys == [k \in CandidateSet |-> None]
NoIds == [k \in SenderKeySet |-> None]
NoWrapper == [t |-> "none", f |-> NoKeys]
EmptyDict == [t |-> "dict", ids |-> NoIds, top |-> NoKeys, data |-> NoWrapper, payload |-> NoWrapper]
NoBody == [t |-> "none", ids |-> NoIds, top |-> NoKeys, data |-> NoWrapper, payload |-> NoWrapper]
ListBody == [t |-> "list", ids |-> NoIds, top |-> NoKeys, data |-> NoWrapper, payload |-> NoWrapper]

\* bool(data) of a body: a dict is true when it has a key.
BodyTruthy(b) ==
    \/ b.t = "list"
    \/ /\ b.t = "dict"
       /\ \/ \E k \in SenderKeySet : b.ids[k].t # "none"
          \/ \E k \in CandidateSet : b.top[k].t # "none"
          \/ b.data.t # "none"
          \/ b.payload.t # "none"

\* app.py:184-186: the JSON body, else the form, else {}.
RequestData(req) ==
    IF BodyTruthy(req.json) THEN req.json
    ELSE IF BodyTruthy(req.form) THEN req.form
    ELSE EmptyDict

\* app.py:46-49 and 54-57: the first candidate key, from the i-th on, that holds
\* a str with a non-blank character; its value as it is, "" when there is none.
RECURSIVE ProbeCandidates(_, _)
ProbeCandidates(d, i) ==
    IF i > Len(candidates) THEN <<>>
    ELSE LET v == d[candidates[i]]
         IN  IF v.t = "str" /\ Strip(v.v) # <<>> THEN v.v
             ELSE ProbeCandidates(d, i + 1)

\* _extract_message_text with the wrappers of app.py:51 in the order
\* ("payload", "data").
_extract_message_text_payload_first(payload) ==
    LET top == ProbeCandidates(payload.top, 1)
        inData == IF payload.data.t = "dict" THEN ProbeCandidates(payload.data.f, 1) ELSE <<>>
        inPayload == IF payload.payload.t = "dict" THEN ProbeCandidates(payload.payload.f, 1) ELSE <<>>
    IN  IF top # <<>> THEN top
        ELSE IF inPayload # <<>> THEN inPayload
        ELSE inData

\* app.py:35-58
_extract_message_text(payload) ==
    LET top == ProbeCandidates(payload.top, 1)
        inData == IF payload.data.t = "dict" THEN ProbeCandidates(payload.data.f, 1) ELSE <<>>
        inPayload == IF payload.payload.t = "dict" THEN ProbeCandidates(payload.payload.f, 1) ELSE <<>>
    IN  IF top # <<>> THEN top
        ELSE IF inData # <<>> THEN inData
        ELSE inPayload

\* A sender id is an opaque string, held whole as the one element of a str
\* value; a sender key holding a non-empty JSON list gives an unhashable
\* sender_jid, written UnhashableJid.
UnhashableJid == "[...]"
JidOf(x) == IF x.t = "list" THEN UnhashableJid
            ELSE IF x.t = "str" THEN x.v[1] ELSE "num"

\* app.py:188: data.get("jid") or data.get("wa_id") or data.get("from") or "unknown"
RECURSIVE FirstTruthyId(_, _)
FirstTruthyId(ids, i) ==
    IF i > Len(SenderKeys) THEN "unknown"
    ELSE IF Truthy(ids[SenderKeys[i]]) THEN JidOf(ids[SenderKeys[i]])
    ELSE FirstTruthyId(ids, i + 1)

\* ------------------------------------------------------- backend responses
\* A completion response body is a record [t, choices, content]: t = "dict" or
\* "list" (any JSON value that is no object); choices is [t, ch0] with t = "none"
\* (no such key), "empty" ([]) or "list", and ch0 = [t, message, text] the first
\* choice, message being [t, content].
NoMessage == [t |-> "none", content |-> None]
NoChoice == [t |-> "none", message |-> NoMessage, text |-> None]
NoChoices == [t |-> "none", ch0 |-> NoChoice]
ChatShape(c) == [t |-> "dict",
                 choices |-> [t |-> "list",
                              ch0 |-> [t |-> "dict", message |-> [t |-> "dict", content |-> c], text |-> None]],
                 content |-> None]
CompletionShape(c) == [t |-> "dict",
                       choices |-> [t |-> "list", ch0 |-> [t |-> "dict", message |-> NoMessage, text |-> c]],
                       content |-> None]
TopLevelShape(c) == [t |-> "dict", choices |-> NoChoices, content |-> c]
ListResult == [t |-> "list", choices |-> NoChoices, content |-> None]

\* _extract_ai_text with the tests of app.py:69 and 72 in the other order: the
\* first choice's text is taken before its message.
_extract_ai_text_completion_first(result) ==
    IF result.t # "dict" THEN <<>>
    ELSE LET choices == result.choices
             ch0 == choices.ch0
             msg == IF ch0.t = "dict" THEN ch0.message ELSE NoMessage
         IN  IF choices.t = "list" /\ ch0.t = "dict" /\ ch0.text.t = "str"
               THEN Strip(ch0.text.v)
             ELSE IF choices.t = "list" /\ msg.t = "dict" /\ msg.content.t = "str"
               THEN Strip(msg.content.v)
             ELSE IF result.content.t = "str" THEN Strip(result.content.v)
             ELSE <<>>

\* app.py:61-79
_extract_ai_text(result) ==
    IF result.t # "dict" THEN <<>>                    \* result.get raises: except, return ""
    ELSE LET choices == result.choices
             ch0 == choices.ch0
             msg == IF ch0.t = "dict" THEN ch0.message ELSE NoMessage
         IN  IF choices.t = "list" /\ msg.t = "dict" /\ msg.content.t = "str"
               THEN Strip(msg.content.v)
             ELSE IF choices.t = "list" /\ ch0.t = "dict" /\ ch0.text.t = "str"
               THEN Strip(ch0.text.v)
             ELSE IF result.content.t = "str" THEN Strip(result.content.v)
             ELSE <<>>

\* ------------------------------------------------------------ model resolver
LowerChar(c) == CASE c = "A" -> "a" [] c = "U" -> "u" [] c = "T" -> "t" [] c = "O" -> "o"
                  [] c = "M" -> "m" [] OTHER -> c
\* str.lower()
Lower(s) == [i \in 1..Len(s) |-> LowerChar(s[i])]

SeqContains(ids, x) == \E i \in 1..Len(ids) : ids[i] = x

\* get_active_model without the test of app.py:170: the preference is never
\* looked up among the listed ids.
get_active_model_first_only(LM_MODEL, resp) ==
    IF resp.ok /\ resp.ids # <<>> THEN resp.ids[1] ELSE LM_MODEL

\* app.py:155-177, given the configured preference and the answer of GET
\* /v1/models: [ok, ids], ok = FALSE for any failure to reach or parse it.
get_active_model(LM_MODEL, resp) ==
    LET pref == Lower(Strip(LM_MODEL))
    IN  IF ~resp.ok THEN LM_MODEL
        ELSE IF pref \in {<<>>, <<"a", "u", "t", "o">>, <<"*">>}
          THEN IF resp.ids # <<>> THEN resp.ids[1] ELSE LM_MODEL
        ELSE IF SeqContains(resp.ids, LM_MODEL) THEN LM_MODEL
        ELSE IF resp.ids # <<>> THEN resp.ids[1]
        ELSE LM_MODEL

\* ------------------------------------------------------- prompt linearization
HistoryLimit == 8

\* seq[:k], the slice taken from the wrong end.
FirstN(seq, k) == IF Len(seq) <= k THEN seq ELSE SubSeq(seq, 1, k)

\* seq[-k:]
LastN(seq, k) == IF Len(seq) <= k THEN seq ELSE SubSeq(seq, Len(seq) - k + 1, Len(seq))

UserPrefix == <<"U", "s", "e", "r", ":", " ">>
AssistantPrefix == <<"A", "s", "s", "i", "s", "t", "a", "n", "t", ":", " ">>
AssistantLine == <<"A", "s", "s", "i", "s", "t", "a", "n", "t", ":">>

\* app.py:86-95: the line of one message, <<>> for a message that is skipped.
PromptPart(m) ==
    LET content == Strip(m.content)
    IN  IF content = <<>> THEN <<>>
        ELSE IF m.role = "user" THEN UserPrefix \o content
        ELSE IF m.role = "assistant" THEN AssistantPrefix \o content
        ELSE content

\* PromptParts without the test of app.py:88-89: a message without content
\* gives an empty line.
PromptPartsKeepsEmpty(ms) == [i \in 1..Len(ms) |-> PromptPart(ms[i])]

RECURSIVE PromptParts(_)
PromptParts(ms) ==
    IF ms = <<>> THEN <<>>
    ELSE LET part == PromptPart(Head(ms))
         IN  IF part = <<>> THEN PromptParts(Tail(ms))
             ELSE <<part>> \o PromptParts(Tail(ms))

\* "\n".join(parts)
RECURSIVE Join(_)
Join(parts) ==
    IF parts = <<>> THEN <<>>
    ELSE IF Len(parts) = 1 THEN parts[1]
    ELSE parts[1] \o <<"\n">> \o Join(Tail(parts))

\* app.py:82-97
_messages_to_prompt(messages) ==
    Join(Append(PromptParts(LastN(messages, HistoryLimit)), AssistantLine))

\* -------------------------------------------------------------------- state
VARIABLES
    ALLOWED_JIDS,       \* app.py:18 the allow-list, read once at start
    LM_STUDIO_MODEL,    \* app.py:14 the configured model preference
    conversations,      \* app.py:28 sender id -> list of turns
    nreq,               \* the number of requests received so far
    th,                 \* per request thread: its position in auto_reply and its locals
    touched,            \* per request thread: the request in progress has changed conversations
    args,               \* the arguments of a function that is called on its own
    ret                 \* what that call has returned or raised

vars == <<ALLOWED_JIDS, LM_STUDIO_MODEL, conversations, nreq, th, touched, args, ret>>

M1 == <<"m", "1">>
M2 == <<"m", "2">>
Auto == <<"a", "u", "t", "o">>

NoResponse == [message |-> <<>>, status |-> 0]

\* A thread that serves no request.  n is the number of its request; model_id,
\* attempt and prompt are the locals of _call_lm_studio; calls is the outbound
\* calls the request has made so far, each [ep, exc, text, fresh, prompt]: the
\* endpoint, whether a completion call raised, the text extracted from its
\* answer, whether the model id it carried was resolved after the previous
\* completion call (fresh, of the thread: the model id was resolved since the
\* last one), and the prompt sent to the completions endpoint.
Idle == [pc |-> "idle", n |-> 0, sender_jid |-> "", message_text |-> <<>>,
         messages |-> <<>>, model_id |-> <<>>, attempt |-> 0, ai_text |-> <<>>,
         prompt |-> <<>>, prev |-> <<>>, fresh |-> FALSE, calls |-> <<>>,
         noText |-> FALSE, outcome |-> "none", response |-> NoResponse]

Turn(role, content) == [role |-> role, content |-> content]

\* A lookup that falls back on some stored entry, whoever it is of, when the
\* sender has none.
GetAnyEntry(jid) ==
    IF jid \in DOMAIN conversations THEN conversations[jid]
    ELSE IF DOMAIN conversations # {} THEN conversations[CHOOSE k \in DOMAIN conversations : TRUE]
    ELSE <<>>

\* conversations.get(jid, [])
Get(jid) == IF jid \in DOMAIN conversations THEN conversations[jid] ELSE <<>>

\* jsonify({"message": message}): the response of a return without a status.
Return(t, outcome, message) ==
    [t EXCEPT !.pc = "done", !.outcome = outcome,
              !.response = [message |-> message, status |-> 200]]

\* Handler, were only requests.RequestException caught: any other exception
\* leaves auto_reply and Flask answers 500.
HandlerRequestsOnly(exc) ==
    IF exc = "RequestException" THEN [message |-> <<>>, status |-> 200]
    ELSE [message |-> <<>>, status |-> 500]

\* app.py:220-226: what auto_reply answers when exception exc reaches its
\* handlers; both handlers answer the same.
Handler(exc) ==
    IF exc = "RequestException" THEN [message |-> <<>>, status |-> 200]
    ELSE [message |-> <<>>, status |-> 200]

Raise(t, exc) == [t EXCEPT !.pc = "done", !.outcome = "error", !.response = Handler(exc)]

\* ------------------------------------------------------------------- inputs
WithTop(k, v) == [EmptyDict EXCEPT !.top[k] = v]
WithData(k, v) == [EmptyDict EXCEPT !.data = [t |-> "dict", f |-> [NoKeys EXCEPT ![k] = v]]]
WithPayload(k, v) == [EmptyDict EXCEPT !.payload = [t |-> "dict", f |-> [NoKeys EXCEPT ![k] = v]]]

\* Values of a text key that are no text: "", a blank str, a number, null.
NonTexts == {Str(<<>>), Str(<<" ">>), Num, Null}

\* The text keys of the bodies request n may carry: its text under any one key
\* at any one level, a value that is no text, nothing, a wrapper that is no
\* dict, and a text in a wrapper below a top-level key that holds no text.
TextBodies(n) ==
    {WithTop(k, Str(UserText(n))) : k \in CandidateSet}
    \cup {WithData(k, Str(UserText(n))) : k \in CandidateSet}
    \cup {WithPayload(k, Str(UserText(n))) : k \in CandidateSet}
    \cup {WithTop("text", v) : v \in NonTexts}
    \cup {WithData("message", v) : v \in NonTexts}
    \cup {WithPayload("content", v) : v \in NonTexts}
    \cup {EmptyDict,
          [EmptyDict EXCEPT !.data = [t |-> "num", f |-> NoKeys]],
          [WithData("body", Str(UserText(n))) EXCEPT !.top["text"] = Str(<<" ">>)],
          [WithPayload("text", Str(UserText(n))) EXCEPT !.top["content"] = Num]}

U1 == [NoIds EXCEPT !["jid"] = Str(<<"u1">>)]
U2 == [NoIds EXCEPT !["jid"] = Str(<<"u2">>)]

\* The sender keys a body may carry: one of two senders under "jid", a sender
\* under a later key (behind an empty "jid" or none), a list under "jid".
IdChoices ==
    {U1, U2,
     [NoIds EXCEPT !["wa_id"] = Str(<<"u1">>)],
     [NoIds EXCEPT !["jid"] = Str(<<>>), !["from"] = Str(<<"u2">>)],
     [NoIds EXCEPT !["jid"] = List]}

\* The bodies of request n: every choice of text keys from either sender, every
\* choice of sender keys with the text under "text", with a blank one and with
\* none, and bodies without any sender key that carry no text.
Bodies(n) ==
    {[b EXCEPT !.ids = ids] : b \in TextBodies(n), ids \in {U1, U2}}
    \cup {[b EXCEPT !.ids = ids] :
            b \in {WithTop("text", Str(UserText(n))), WithTop("text", Str(<<" ">>)), EmptyDict},
            ids \in IdChoices}
    \cup {EmptyDict, WithTop("text", Num), WithData("text", Str(<<>>))}

\* A request: its JSON body and its form.
Requests(n) ==
    {[json |-> b, form |-> NoBody] : b \in Bodies(n)}
    \cup {[json |-> j, form |-> [WithTop("message", Str(UserText(n))) EXCEPT !.ids["from"] = Str(<<"u1">>)]] :
            j \in {NoBody, EmptyDict}}
    \cup {[json |-> ListBody, form |-> NoBody], [json |-> NoBody, form |-> NoBody]}

\* The answers of GET /v1/models.
CatalogResponses ==
    {[ok |-> FALSE, ids |-> <<>>], [ok |-> TRUE, ids |-> <<>>], [ok |-> TRUE, ids |-> <<M1, M2>>]}

\* The outcomes of a completion call of request n: it raises (no connection, a
\* timeout, an HTTP error status, a body that is no JSON) or gives a result.
Results(n) ==
    {ChatShape(Str(<<" ">> \o ReplyText(n) \o <<" ">>)),
     ChatShape(Str(<<" ">>)),
     CompletionShape(Str(ReplyText(n) \o <<"\n">>)),
     TopLevelShape(Str(ReplyText(n))),
     TopLevelShape(None),
     ListResult}

PostOutcomes(n) ==
    {[exc |-> TRUE, result |-> ListResult]} \cup {[exc |-> FALSE, result |-> x] : x \in Results(n)}

\* ------------------------------------------------------------------ actions
Call(ep, exc, text, fresh, prompt) ==
    [ep |-> ep, exc |-> exc, text |-> text, fresh |-> fresh, prompt |-> prompt]
ModelsCall == Call("models", FALSE, <<>>, FALSE, <<>>)

\* ClientReturn, were a call made without a timeout to a backend that never
\* answers: _call_lm_studio does not return.
ClientNeverReturns(t, ai_text) == [t EXCEPT !.pc = "blocked"]

\* _call_lm_studio returns ai_text to auto_reply (app.py:204): its locals end.
ClientReturn(t, ai_text) ==
    [t EXCEPT !.pc = "returned", !.ai_text = ai_text,
              !.model_id = <<>>, !.attempt = 0, !.prompt = <<>>, !.fresh = FALSE]

\* Some text key, at the top level or in a wrapper, holds a non-empty string.
HoldsText(d) == \E k \in CandidateSet : d[k].t = "str" /\ d[k].v # <<>>
SomeAliasHoldsText(data) ==
    /\ data.t = "dict"
    /\ \/ HoldsText(data.top)
       \/ data.data.t = "dict" /\ HoldsText(data.data.f)
       \/ data.payload.t = "dict" /\ HoldsText(data.payload.f)

\* Normalize without the allow-list check of app.py:195-197.
NormalizeNoAllowList(n, data) ==
    LET t == [Idle EXCEPT !.n = n, !.noText = ~SomeAliasHoldsText(data)]
    IN  IF data.t # "dict" THEN Raise(t, "AttributeError")
        ELSE LET sender_jid == FirstTruthyId(data.ids, 1)
                 message_text == _extract_message_text(data)
                 u == [t EXCEPT !.sender_jid = sender_jid, !.message_text = message_text]
             IN  IF message_text = <<>> THEN Return(u, "noop", <<>>)
                 ELSE [u EXCEPT !.pc = "build"]

\* Normalize without the empty-text check of app.py:199-200.
NormalizeNoEmptyCheck(n, data) ==
    LET t == [Idle EXCEPT !.n = n, !.noText = ~SomeAliasHoldsText(data)]
    IN  IF data.t # "dict" THEN Raise(t, "AttributeError")
        ELSE LET sender_jid == FirstTruthyId(data.ids, 1)
                 message_text == _extract_message_text(data)
                 u == [t EXCEPT !.sender_jid = sender_jid, !.message_text = message_text]
             IN  IF ALLOWED_JIDS # {} /\ sender_jid = UnhashableJid
                   THEN Raise(u, "TypeError")
                 ELSE IF ALLOWED_JIDS # {} /\ sender_jid \notin ALLOWED_JIDS
                   THEN Return(u, "reject", <<>>)
                 ELSE [u EXCEPT !.pc = "build"]

\* app.py:182-200: auto_reply up to the build of the context, for request n
\* with body data: the thread's record afterwards.
Normalize(n, data) ==
    LET t == [Idle EXCEPT !.n = n, !.noText = ~SomeAliasHoldsText(data)]
    IN  IF data.t # "dict" THEN Raise(t, "AttributeError")          \* 188: data.get
        ELSE LET sender_jid == FirstTruthyId(data.ids, 1)
                 message_text == _extract_message_text(data)
                 u == [t EXCEPT !.sender_jid = sender_jid, !.message_text = message_text]
             IN  IF ALLOWED_JIDS # {} /\ sender_jid = UnhashableJid
                   THEN Raise(u, "TypeError")                        \* 195: hash of a list
                 ELSE IF ALLOWED_JIDS # {} /\ sender_jid \notin ALLOWED_JIDS
                   THEN Return(u, "reject", <<>>)
                 ELSE IF message_text = <<>> THEN Return(u, "noop", <<>>)
                 ELSE [u EXCEPT !.pc = "build"]

\* Whether a step of thread r has changed conversations, since its request began.
Observe(r) ==
    touched' = [touched EXCEPT ![r] =
                  IF th'[r].pc = "idle" THEN FALSE ELSE @ \/ conversations' # conversations]

Receive(r) ==
    /\ th[r].pc = "idle"
    /\ \E req \in Requests(nreq + 1) :
         th' = [th EXCEPT ![r] = Normalize(nreq + 1, RequestData(req))]
    /\ nreq' = nreq + 1
    /\ UNCHANGED <<args, ret, ALLOWED_JIDS, LM_STUDIO_MODEL, conversations>>
    /\ Observe(r)

\* app.py:203, 145-152
build_messages(r) ==
    /\ th[r].pc = "build"
    /\ LET t == th[r]
       IN  th' = [th EXCEPT ![r] =
                    IF t.sender_jid = UnhashableJid THEN Raise(t, "TypeError")   \* 147: hash of a list
                    ELSE [t EXCEPT !.pc = "resolve",
                                   !.messages = LastN(Get(t.sender_jid), HistoryLimit)
                                                \o <<Turn("user", t.message_text)>>]]
    /\ UNCHANGED <<args, ret, ALLOWED_JIDS, LM_STUDIO_MODEL, conversations, nreq>>
    /\ Observe(r)

\* NextAttempt, were the loop range(3).
NextAttemptThrice(t) ==
    IF t.attempt + 1 < 3 THEN [t EXCEPT !.attempt = @ + 1, !.pc = "chat"]
    ELSE [t EXCEPT !.pc = "fallback"]

\* The end of one turn of the loop of app.py:112: the next attempt, or the fallback.
NextAttempt(t) ==
    IF t.attempt + 1 < 2 THEN [t EXCEPT !.attempt = @ + 1, !.pc = "chat"]
    ELSE [t EXCEPT !.pc = "fallback"]

\* app.py:111
Resolve(r) ==
    /\ th[r].pc = "resolve"
    /\ \E resp \in CatalogResponses :
         th' = [th EXCEPT ![r] = [@ EXCEPT !.pc = "chat", !.attempt = 0, !.fresh = TRUE,
                                          !.model_id = get_active_model(LM_STUDIO_MODEL, resp),
                                          !.calls = Append(@, ModelsCall)]]
    /\ UNCHANGED <<args, ret, ALLOWED_JIDS, LM_STUDIO_MODEL, conversations, nreq>>
    /\ Observe(r)

\* app.py:113-122: one attempt at the chat endpoint.
ChatPost(r) ==
    /\ th[r].pc = "chat"
    /\ \E out \in PostOutcomes(th[r].n) :
         LET t == th[r]
             ai_text == IF out.exc THEN <<>> ELSE _extract_ai_text(out.result)
             u == [t EXCEPT !.fresh = FALSE,
                            !.calls = Append(@, Call("chat", out.exc, ai_text, t.fresh, <<>>))]
         IN  th' = [th EXCEPT ![r] =
                      IF out.exc THEN [u EXCEPT !.pc = "refresh"]
                      ELSE IF ai_text # <<>> THEN ClientReturn(u, ai_text)
                      ELSE NextAttempt(u)]
    /\ UNCHANGED <<args, ret, ALLOWED_JIDS, LM_STUDIO_MODEL, conversations, nreq>>
    /\ Observe(r)

\* app.py:124: the model id is refreshed after an attempt that raised.
Refresh(r) ==
    /\ th[r].pc = "refresh"
    /\ \E resp \in CatalogResponses :
         th' = [th EXCEPT ![r] =
                  NextAttempt([@ EXCEPT !.fresh = TRUE,
                                        !.model_id = get_active_model(LM_STUDIO_MODEL, resp),
                                        !.calls = Append(@, ModelsCall)])]
    /\ UNCHANGED <<args, ret, ALLOWED_JIDS, LM_STUDIO_MODEL, conversations, nreq>>
    /\ Observe(r)

\* app.py:127-134: the prompt and the model id of the fallback.
Fallback(r) ==
    /\ th[r].pc = "fallback"
    /\ \E resp \in CatalogResponses :
         th' = [th EXCEPT ![r] = [@ EXCEPT !.pc = "completions", !.fresh = TRUE,
                                          !.prompt = _messages_to_prompt(th[r].messages),
                                          !.model_id = get_active_model(LM_STUDIO_MODEL, resp),
                                          !.calls = Append(@, ModelsCall)]]
    /\ UNCHANGED <<args, ret, ALLOWED_JIDS, LM_STUDIO_MODEL, conversations, nreq>>
    /\ Observe(r)

\* CompletionsPost without the except of app.py:140-142: a call that raises
\* leaves _call_lm_studio and reaches the handlers of auto_reply.
CompletionsPostRaises(r) ==
    /\ th[r].pc = "completions"
    /\ \E out \in PostOutcomes(th[r].n) :
         LET ai_text == IF out.exc THEN <<>> ELSE _extract_ai_text(out.result)
             u == [th[r] EXCEPT !.calls = Append(@, Call("completions", out.exc, ai_text,
                                                         th[r].fresh, th[r].prompt))]
         IN  th' = [th EXCEPT ![r] =
                      IF out.exc THEN Raise(u, "RequestException") ELSE ClientReturn(u, ai_text)]
    /\ UNCHANGED <<args, ret, ALLOWED_JIDS, LM_STUDIO_MODEL, conversations, nreq>>
    /\ Observe(r)

\* app.py:135-142
CompletionsPost(r) ==
    /\ th[r].pc = "completions"
    /\ \E out \in PostOutcomes(th[r].n) :
         LET ai_text == IF out.exc THEN <<>> ELSE _extract_ai_text(out.result)
         IN  th' = [th EXCEPT ![r] =
                      ClientReturn([@ EXCEPT !.calls = Append(@, Call("completions", out.exc, ai_text,
                                                                      th[r].fresh, th[r].prompt))],
                                   ai_text)]
    /\ UNCHANGED <<args, ret, ALLOWED_JIDS, LM_STUDIO_MODEL, conversations, nreq>>
    /\ Observe(r)

\* conversations[jid] = [] whatever is stored: an entry another request has
\* made is replaced.
SetDefaultOverwrites(jid) ==
    [k \in DOMAIN conversations \cup {jid} |-> IF k = jid THEN <<>> ELSE conversations[k]]

\* dict.setdefault(jid, [])
SetDefaultOf(jid) ==
    IF jid \in DOMAIN conversations THEN conversations
    ELSE [k \in DOMAIN conversations \cup {jid} |-> IF k = jid THEN <<>> ELSE conversations[k]]

\* NoReply, were the user turn recorded before the reply is known to be empty.
NoReplyKeepsUser(r) ==
    /\ th[r].pc = "returned"
    /\ th[r].ai_text = <<>>
    /\ conversations' = [SetDefaultOf(th[r].sender_jid) EXCEPT ![th[r].sender_jid] =
                            Append(@, Turn("user", th[r].message_text))]
    /\ th' = [th EXCEPT ![r] = Return(@, "noreply", <<>>)]
    /\ UNCHANGED <<args, ret, ALLOWED_JIDS, LM_STUDIO_MODEL, nreq>>
    /\ Observe(r)

\* NoReply, were the sender's entry made (app.py:213) before the reply is
\* known to be empty.
NoReplyMakesEntry(r) ==
    /\ th[r].pc = "returned"
    /\ th[r].ai_text = <<>>
    /\ conversations' = SetDefaultOf(th[r].sender_jid)
    /\ th' = [th EXCEPT ![r] = Return(@, "noreply", <<>>)]
    /\ UNCHANGED <<args, ret, ALLOWED_JIDS, LM_STUDIO_MODEL, nreq>>
    /\ Observe(r)

\* app.py:205-208
NoReply(r) ==
    /\ th[r].pc = "returned"
    /\ th[r].ai_text = <<>>
    /\ th' = [th EXCEPT ![r] = Return(@, "noreply", <<>>)]
    /\ UNCHANGED <<args, ret, ALLOWED_JIDS, LM_STUDIO_MODEL, conversations, nreq>>
    /\ Observe(r)

\* app.py:213: conv is the list stored under the sender, made if absent.
SetDefault(r) ==
    /\ th[r].pc = "returned"
    /\ th[r].ai_text # <<>>
    /\ conversations' = SetDefaultOf(th[r].sender_jid)
    /\ th' = [th EXCEPT ![r].pc = "append_user"]
    /\ UNCHANGED <<args, ret, ALLOWED_JIDS, LM_STUDIO_MODEL, nreq>>
    /\ Observe(r)

\* app.py:214
AppendUser(r) ==
    /\ th[r].pc = "append_user"
    /\ conversations' = [conversations EXCEPT ![th[r].sender_jid] =
                            Append(@, Turn("user", th[r].message_text))]
    /\ th' = [th EXCEPT ![r].pc = "append_assistant", ![r].prev = conversations[th[r].sender_jid]]
    /\ UNCHANGED <<args, ret, ALLOWED_JIDS, LM_STUDIO_MODEL, nreq>>
    /\ Observe(r)

\* app.py:215-218
AppendAssistant(r) ==
    /\ th[r].pc = "append_assistant"
    /\ conversations' = [conversations EXCEPT ![th[r].sender_jid] =
                            Append(@, Turn("assistant", th[r].ai_text))]
    /\ th' = [th EXCEPT ![r] = Return(@, "success", @.ai_text)]
    /\ UNCHANGED <<args, ret, ALLOWED_JIDS, LM_STUDIO_MODEL, nreq>>
    /\ Observe(r)

\* The response is sent and the thread is free for the next request.
Finish(r) ==
    /\ th[r].pc = "done"
    /\ th' = [th EXCEPT ![r] = Idle]
    /\ UNCHANGED <<args, ret, ALLOWED_JIDS, LM_STUDIO_MODEL, conversations, nreq>>
    /\ Observe(r)

\* ------------------------------------------------------------ specifications
Work(r) ==
    \/ build_messages(r)
    \/ Resolve(r)
    \/ ChatPost(r)
    \/ Refresh(r)
    \/ Fallback(r)
    \/ CompletionsPost(r)
    \/ NoReply(r)
    \/ SetDefault(r)
    \/ AppendUser(r)
    \/ AppendAssistant(r)
    \/ Finish(r)

\* The configurations: no allow-list and the default preference, or an
\* allow-list and an explicit preference.
Configs ==
    \/ ALLOWED_JIDS = {} /\ LM_STUDIO_MODEL = Auto
    \/ ALLOWED_JIDS = {"u1"} /\ LM_STUDIO_MODEL = M2

\* The server after start: no conversation, no request.
AtStart ==
    /\ conversations = [k \in {} |-> <<>>]
    /\ nreq = 0
    /\ th = [r \in Threads |-> Idle]
    /\ touched = [r \in Threads |-> FALSE]

\* No function is called on its own.
NoArgs == <<>>
NotCalled == [done |-> FALSE, raised |-> FALSE, val |-> <<>>]

Init ==
    /\ Configs
    /\ AtStart
    /\ args = NoArgs
    /\ ret = NotCalled

\* Flask's threaded server: requests are served as they arrive, each by a
\* thread of its own.
ReceiveThreaded(r) == nreq < MaxRequests /\ Receive(r)

Next == \E r \in Threads : ReceiveThreaded(r) \/ Work(r)

Spec == Init /\ [][Next]_vars

\* The threaded server, every request thread being scheduled again and again
\* and every outbound call returning or timing out (app.py:114, 135, 158 pass
\* a timeout): a thread that can take a step takes one.
SpecFair == Init /\ [][Next]_vars /\ \A r \in Threads : WF_vars(Work(r))

\* A server that takes a request only when no other is in progress.
ReceiveSerial(r) ==
    /\ nreq < MaxSerialRequests
    /\ \A q \in Threads : th[q].pc = "idle"
    /\ Receive(r)

NextSerial == \E r \in Threads : ReceiveSerial(r) \/ Work(r)

SpecSerial == Init /\ [][NextSerial]_vars

\* ------------------------------------------- functions called on their own
\* What a call has returned.
Returned(val) == [done |-> TRUE, raised |-> FALSE, val |-> val]

\* The values of LM_STUDIO_MODEL: none, blank, the three that ask for any
\* model, "auto" in other case and with whitespace around it, listed ids, an
\* id in other case, and an id that is not listed.
AutoUpper == <<"A", "U", "T", "O">>
Missing == <<"x">>
Preferences ==
    {<<>>, <<" ">>, Auto, <<"*">>, AutoUpper, <<" ", "a", "u", "t", "o", "\n">>,
     M1, M2, <<"M", "2">>, Missing}

\* The answers of GET /v1/models: a failure (no connection, a timeout, an HTTP
\* error status, a body that is no JSON object), or the ids it lists.
CatalogAnswers ==
    {[ok |-> FALSE, ids |-> <<>>]}
    \cup {[ok |-> TRUE, ids |-> ids] :
            ids \in {<<>>, <<M1>>, <<M1, M2>>, <<M2, M1>>, <<M1, AutoUpper>>, <<M1, <<"*">> >>}}

\* get_active_model is called once, with args the answer of the backend.
InitResolver ==
    /\ ALLOWED_JIDS = {}
    /\ LM_STUDIO_MODEL \in Preferences
    /\ AtStart
    /\ args \in CatalogAnswers
    /\ ret = NotCalled

CallResolver ==
    /\ ~ret.done
    /\ ret' = Returned(get_active_model(LM_STUDIO_MODEL, args))
    /\ UNCHANGED <<args, ALLOWED_JIDS, LM_STUDIO_MODEL, conversations, nreq, th, touched>>

SpecResolver == InitResolver /\ [][CallResolver]_vars

\* The values of a text key in the payloads given to _extract_message_text: a
\* text, a text with whitespace around it, a blank str, "", a number, null.
TextA == <<"a">>
TextB == <<"b">>
TextC == <<"c">>
KeyValues == {Str(TextA), Str(<<" ">> \o TextA \o <<"\n">>), Str(<<" ">>), Str(<<>>), Num, Null}

\* The payloads: two text keys at the top level; and a text key at the top
\* level (or none), with either wrapper absent, no dict, or a dict with a key.
Wrappers(v) ==
    {NoWrapper, [t |-> "num", f |-> NoKeys]}
    \cup {[t |-> "dict", f |-> [NoKeys EXCEPT ![k] = x]] :
            k \in {"message", "content"}, x \in {Str(v), Str(<<" ">>)}}
Payloads ==
    {[EmptyDict EXCEPT !.top[k1] = Str(TextB), !.top[k2] = v] :
        k1 \in CandidateSet, k2 \in CandidateSet, v \in {Str(TextA), Str(<<" ">>), Num}}
    \cup {[EmptyDict EXCEPT !.top["body"] = v, !.data = d, !.payload = w] :
            v \in KeyValues \cup {None}, d \in Wrappers(TextB), w \in Wrappers(TextC)}

\* _extract_message_text is called once, with args the payload.
InitNormalizer ==
    /\ Configs
    /\ AtStart
    /\ args \in Payloads
    /\ ret = NotCalled

CallNormalizer ==
    /\ ~ret.done
    /\ ret' = Returned(_extract_message_text(args))
    /\ UNCHANGED <<args, ALLOWED_JIDS, LM_STUDIO_MODEL, conversations, nreq, th, touched>>

SpecNormalizer == InitNormalizer /\ [][CallNormalizer]_vars

\* The message lists given to _messages_to_prompt.  Short ones: every list of
\* up to two messages of any role (user, assistant, another) whose content is
\* a text, a text with whitespace around it, blank or empty (an absent or null
\* content reads as empty, app.py:87).  Long ones: 7 to MaxPromptTurns
\* messages, the i-th with a content that names i, the roles in rotation from
\* any start, and one message (or none) without content.
Roles == <<"user", "assistant", "system">>
Contents == {TextA, <<" ">> \o TextB \o <<"\n">>, <<" ">>, <<>>}
ShortMessages ==
    LET kinds == {Turn(Roles[i], c) : i \in 1..Len(Roles), c \in Contents}
    IN  {<<>>} \cup {<<m>> : m \in kinds} \cup {<<m1, m2>> : m1 \in kinds, m2 \in kinds}
PosText(i) == IF i <= Len(Digits) THEN <<"p", Digits[i]>> ELSE <<"q", Digits[i - Len(Digits)]>>
LongMessages ==
    {[i \in 1..n |-> Turn(Roles[((i + o) % Len(Roles)) + 1], IF i = b THEN <<>> ELSE PosText(i))] :
        n \in 7..MaxPromptTurns, o \in 0..2, b \in 0..MaxPromptTurns}

\* _messages_to_prompt is called once, with args the messages.
InitPrompt ==
    /\ Configs
    /\ AtStart
    /\ args \in ShortMessages \cup LongMessages
    /\ ret = NotCalled

CallPrompt ==
    /\ ~ret.done
    /\ ret' = Returned(_messages_to_prompt(args))
    /\ UNCHANGED <<args, ALLOWED_JIDS, LM_STUDIO_MODEL, conversations, nreq, th, touched>>

SpecPrompt == InitPrompt /\ [][CallPrompt]_vars

\* The response bodies given to _extract_ai_text: a body that is no object;
\* and an object whose "choices" is absent, no list, an empty list, or a list
\* whose first element is no object or an object with any "message" (absent,
\* no object, an object with any "content") and any "text", together with
\* any top-level "content".
MessageContents == {None, Null, Num, Str(<<>>), Str(<<" ">>), Str(<<" ">> \o TextA \o <<" ">>)}
ChoiceTexts == {None, Num, Str(<<" ">>), Str(TextB \o <<"\n">>)}
TopContents == {None, Num, Str(<<>>), Str(TextC \o <<" ">>)}
Messages ==
    {NoMessage, [t |-> "str", content |-> None]}
    \cup {[t |-> "dict", content |-> c] : c \in MessageContents}
FirstChoices ==
    {[t |-> "str", message |-> NoMessage, text |-> None]}
    \cup {[t |-> "dict", message |-> m, text |-> x] : m \in Messages, x \in ChoiceTexts}
ChoiceLists ==
    {NoChoices, [t |-> "num", ch0 |-> NoChoice], [t |-> "empty", ch0 |-> NoChoice]}
    \cup {[t |-> "list", ch0 |-> c] : c \in FirstChoices}
ResponseBodies ==
    {ListResult}
    \cup {[t |-> "dict", choices |-> cs, content |-> c] : cs \in ChoiceLists, c \in TopContents}

\* _extract_ai_text is called once, with args the response body.
InitExtract ==
    /\ Configs
    /\ AtStart
    /\ args \in ResponseBodies
    /\ ret = NotCalled

CallExtract ==
    /\ ~ret.done
    /\ ret' = Returned(_extract_ai_text(args))
    /\ UNCHANGED <<args, ALLOWED_JIDS, LM_STUDIO_MODEL, conversations, nreq, th, touched>>

SpecExtract == InitExtract /\ [][CallExtract]_vars

\* ------------------------------------------------------------------- claims
Chars == {" ", "\n", "h", "r"} \cup {Digits[i] : i \in 1..Len(Digits)}

\* The positions of _call_lm_studio, and a request whose call of it has returned.
ClientPcs == {"resolve", "chat", "refresh", "fallback", "completions"}
AfterClient(r) == th[r].calls # <<>> /\ th[r].pc \notin ClientPcs
EmptyReply == [message |-> <<>>, status |-> 200]

IsChat(e) == e.ep = "chat"
IsCompletions(e) == e.ep = "completions"
IsPost(e) == e.ep # "models"

\* C1: every request that has ended has answered {"message": <string>} with
\* status 200, whatever its outcome (rejected, no text, no reply, an exception,
\* success), and the message is empty unless the outcome is success.
C1_AlwaysWellFormedReply ==
    \A r \in Threads :
        th[r].pc = "done" =>
            /\ th[r].response.status = 200
            /\ th[r].response.message \in Seq(Chars)
            /\ th[r].outcome \in {"reject", "noop", "noreply", "error", "success"}
            /\ th[r].outcome # "success" => th[r].response.message = <<>>

\* A request has ended on an exception: a sender id that cannot be hashed.
C1_Witness ==
    \E r \in Threads :
        th[r].pc = "done" /\ th[r].outcome = "error" /\ th[r].sender_jid = UnhashableJid

\* C2: with a non-empty allow-list, a request whose sender is not on it makes
\* no outbound call, changes no conversation, and ends with an empty reply.
C2_UnauthorizedIsSilent ==
    \A r \in Threads :
        (th[r].pc # "idle" /\ ALLOWED_JIDS # {} /\ th[r].sender_jid \notin ALLOWED_JIDS) =>
            /\ th[r].calls = <<>>
            /\ ~touched[r]
            /\ th[r].pc = "done"
            /\ th[r].response = EmptyReply

\* A request that carries a text has been rejected for its sender.
C2_Witness ==
    \E r \in Threads :
        /\ th[r].pc = "done" /\ th[r].outcome = "reject"
        /\ th[r].sender_jid = "u2" /\ th[r].message_text # <<>>

\* C3: a request whose body holds a non-empty string under no text key, at
\* the top level or in a wrapper, has an empty normalized text, makes no
\* outbound call, changes no conversation, and ends with an empty reply.
C3_NoTextIsSilent ==
    \A r \in Threads :
        (th[r].pc # "idle" /\ th[r].noText) =>
            /\ th[r].message_text = <<>>
            /\ th[r].calls = <<>>
            /\ ~touched[r]
            /\ th[r].pc = "done"
            /\ th[r].response = EmptyReply

\* A request of an allowed sender without a text has ended as a no-op.
C3_Witness ==
    \E r \in Threads :
        /\ th[r].pc = "done" /\ th[r].outcome = "noop" /\ th[r].noText
        /\ th[r].sender_jid = "u1"

\* C4: the step that ends a successful exchange of sender s, with text t and
\* reply r, leaves the sequence stored for s equal to the one found before the
\* request's first append, extended by the turns {user, t}, {assistant, r};
\* and the reply returned is r.
C4_ExchangeAppendsTwoTurns ==
    [][\A r \in Threads :
         (th[r].pc = "append_assistant" /\ th'[r].pc = "done") =>
             /\ conversations'[th[r].sender_jid] =
                    th[r].prev \o <<Turn("user", th[r].message_text),
                                    Turn("assistant", th[r].ai_text)>>
             /\ th'[r].response = [message |-> th[r].ai_text, status |-> 200]]_vars

\* C5: a request whose call of the inference client has returned the empty
\* text changes no conversation, goes nowhere but to its end, and ends with
\* an empty reply.
C5_NoReplyLeavesStore ==
    \A r \in Threads :
        (AfterClient(r) /\ th[r].ai_text = <<>>) =>
            /\ ~touched[r]
            /\ th[r].pc \in {"returned", "done"}
            /\ th[r].pc = "done" => th[r].outcome = "noreply" /\ th[r].response = EmptyReply

\* A request has ended without a reply after all three completion calls failed.
C5_Witness ==
    \E r \in Threads :
        /\ th[r].pc = "done" /\ th[r].outcome = "noreply"
        /\ Len(SelectSeq(th[r].calls, IsPost)) = 3

\* C6: the context built for a request is the last min(8, n) of the n turns
\* stored for its sender (none for an unknown sender), in their order, and then
\* one user turn with the text of the request.
C6_ContextIsLastEight ==
    [][\A r \in Threads :
         (th[r].pc = "build" /\ th'[r].pc = "resolve") =>
             LET stored == IF th[r].sender_jid \in DOMAIN conversations
                           THEN conversations[th[r].sender_jid] ELSE <<>>
                 n == Len(stored)
                 k == IF n < 8 THEN n ELSE 8
                 context == th'[r].messages
             IN  /\ Len(context) = k + 1
                 /\ \A i \in 1..k : context[i] = stored[n - k + i]
                 /\ context[k + 1] = [role |-> "user", content |-> th[r].message_text]]_vars

\* A context has been built for a sender with more than eight stored turns.
C6_Witness ==
    \E r \in Threads :
        /\ th[r].pc = "resolve"
        /\ Len(Get(th[r].sender_jid)) > 8
        /\ Len(th[r].messages) = 9

\* C7: no sender's stored sequence ever holds more than 8 turns.
C7_StoreAtMostEight ==
    \A jid \in DOMAIN conversations : Len(conversations[jid]) <= 8

\* C8: a request makes at most two chat calls and at most one completions
\* call; a completions call comes after two chat calls that both gave no
\* text, and its prompt ends in the line "Assistant:"; and once the client
\* has returned, the completions call was made exactly when two chat calls
\* were made and neither gave a text.
EndsWithLine(p, line) ==
    /\ Len(p) >= Len(line)
    /\ SubSeq(p, Len(p) - Len(line) + 1, Len(p)) = line
    /\ Len(p) > Len(line) => p[Len(p) - Len(line)] = "\n"

C8_RetryThenFallback ==
    \A r \in Threads :
        LET calls == th[r].calls
            chats == SelectSeq(calls, IsChat)
            completions == SelectSeq(calls, IsCompletions)
            bothFailed == Len(chats) = 2 /\ chats[1].text = <<>> /\ chats[2].text = <<>>
        IN  /\ Len(chats) <= 2
            /\ Len(completions) <= 1
            /\ \A i \in 1..Len(calls) :
                  calls[i].ep = "completions" =>
                      /\ Len(SelectSeq(SubSeq(calls, 1, i - 1), IsChat)) = 2
                      /\ bothFailed
                      /\ EndsWithLine(calls[i].prompt, AssistantLine)
            /\ AfterClient(r) => (Len(completions) = 1 <=> bothFailed)

\* The completions endpoint has been called, with a prompt of several lines.
C8_Witness ==
    \E r \in Threads :
        /\ AfterClient(r)
        /\ Len(SelectSeq(th[r].calls, IsCompletions)) = 1
        /\ Len(th[r].calls[Len(th[r].calls)].prompt) > Len(AssistantLine)

\* C9: no exception leaves the inference client, and what it returns is the
\* text of the first completion call, in the order made, that gave a text,
\* without surrounding whitespace, and the empty string when none gave one.
RECURSIVE FirstText(_)
FirstText(posts) ==
    IF posts = <<>> THEN <<>>
    ELSE IF Head(posts).text # <<>> THEN Head(posts).text
    ELSE FirstText(Tail(posts))

C9_ClientReturnsFirstText ==
    \A r \in Threads :
        /\ th[r].calls # <<>> => th[r].outcome # "error"
        /\ AfterClient(r) =>
              /\ th[r].ai_text = FirstText(SelectSeq(th[r].calls, IsPost))
              /\ th[r].ai_text \in {<<>>, ReplyText(th[r].n)}

\* The client has returned the text of the completions call, the chat calls
\* having failed, one by raising and one by an answer without text.
C9_Witness ==
    \E r \in Threads :
        LET posts == SelectSeq(th[r].calls, IsPost)
        IN  /\ AfterClient(r)
            /\ Len(posts) = 3
            /\ posts[1].exc /\ ~posts[2].exc
            /\ th[r].ai_text = ReplyText(th[r].n)

\* C10: in every stored sequence a user turn that is not the last turn is
\* followed at once by the assistant turn of the same request.
C10_TurnsDoNotInterleave ==
    \A jid \in DOMAIN conversations :
        LET conv == conversations[jid]
        IN  \A i \in 1..Len(conv) :
                (conv[i].role = "user" /\ i < Len(conv)) =>
                    /\ conv[i + 1].role = "assistant"
                    /\ conv[i + 1].content[2] = conv[i].content[2]

\* C11: no step of any request removes a sender's entry or changes or drops a
\* turn stored in it (each entry only grows at its end), and a request that
\* ends in success leaves its user turn and its assistant turn in the entry of
\* its own sender, each exactly once, however the requests interleave.
IsPrefix(s, t) == Len(s) <= Len(t) /\ SubSeq(t, 1, Len(s)) = s
Occurrences(conv, turn) == Cardinality({i \in 1..Len(conv) : conv[i] = turn})

C11_NoLostUpdate ==
    [][/\ \A jid \in DOMAIN conversations :
             /\ jid \in DOMAIN conversations'
             /\ IsPrefix(conversations[jid], conversations'[jid])
       /\ \A r \in Threads :
             (th'[r].pc = "done" /\ th'[r].outcome = "success") =>
                 /\ th'[r].sender_jid \in DOMAIN conversations'
                 /\ Occurrences(conversations'[th'[r].sender_jid],
                                [role |-> "user", content |-> UserText(th'[r].n)]) = 1
                 /\ Occurrences(conversations'[th'[r].sender_jid],
                                [role |-> "assistant", content |-> ReplyText(th'[r].n)]) = 1]_vars

\* Two first messages of one sender have been served at the same time, their
\* appends interleaved, and both have ended in success: four turns are stored.
C11_Witness ==
    /\ \A r \in Threads : th[r].pc = "done" /\ th[r].outcome = "success" /\ th[r].sender_jid = "u1"
    /\ Len(conversations["u1"]) = 4
    /\ conversations["u1"][1].role = "user" /\ conversations["u1"][2].role = "user"

\* C12 as stated: the preference asks for any model exactly when it is "",
\* "auto" or "*"; any other preference is returned when it is listed.
Listed(ids) == {ids[i] : i \in 1..Len(ids)}
FirstOr(ids, pref) == IF ids # <<>> THEN ids[1] ELSE pref

C12_ResolverAsStated ==
    ret.done =>
        /\ ~ret.raised
        /\ ~args.ok => ret.val = LM_STUDIO_MODEL
        /\ (args.ok /\ LM_STUDIO_MODEL \in {<<>>, Auto, <<"*">>}) =>
              ret.val = FirstOr(args.ids, LM_STUDIO_MODEL)
        /\ (args.ok /\ LM_STUDIO_MODEL \notin {<<>>, Auto, <<"*">>}) =>
              ret.val = IF LM_STUDIO_MODEL \in Listed(args.ids) THEN LM_STUDIO_MODEL
                        ELSE FirstOr(args.ids, LM_STUDIO_MODEL)

\* C12: get_active_model never raises.  When the catalog cannot be fetched it
\* returns the configured preference unchanged.  When the preference, without
\* surrounding whitespace and in lower case, is "", "auto" or "*", it returns
\* the first listed id, or the preference as configured when none is listed.
\* Otherwise it returns the preference when it is listed (compared as
\* configured), else the first listed id, else the preference.  With m1, m2
\* listed: "auto" gives m1, "m2" gives m2, an id not listed gives m1.
AsksForAny(pref) == Lower(Strip(pref)) \in {<<>>, Auto, <<"*">>}

C12_Resolver ==
    ret.done =>
        /\ ~ret.raised
        /\ ~args.ok => ret.val = LM_STUDIO_MODEL
        /\ (args.ok /\ AsksForAny(LM_STUDIO_MODEL)) =>
              ret.val = FirstOr(args.ids, LM_STUDIO_MODEL)
        /\ (args.ok /\ ~AsksForAny(LM_STUDIO_MODEL)) =>
              ret.val = IF LM_STUDIO_MODEL \in Listed(args.ids) THEN LM_STUDIO_MODEL
                        ELSE FirstOr(args.ids, LM_STUDIO_MODEL)
        /\ (args.ok /\ args.ids = <<M1, M2>>) =>
              /\ LM_STUDIO_MODEL = Auto => ret.val = M1
              /\ LM_STUDIO_MODEL = M2 => ret.val = M2
              /\ LM_STUDIO_MODEL = Missing => ret.val = M1

\* The second listed id is the preference and has been returned.
C12_Witness ==
    /\ ret.done /\ args.ok /\ args.ids = <<M1, M2>>
    /\ LM_STUDIO_MODEL = M2 /\ ret.val = M2

\* The values probed in a payload, in the order of the claim: the text keys in
\* their order at the top level, then in "data", then in "payload" (a wrapper
\* that is no object holds nothing).
Probed(p) ==
    [j \in 1..(3 * Len(candidates)) |->
        LET k == candidates[((j - 1) % Len(candidates)) + 1]
        IN  IF j <= Len(candidates) THEN p.top[k]
            ELSE IF j <= 2 * Len(candidates)
              THEN (IF p.data.t = "dict" THEN p.data.f[k] ELSE None)
            ELSE (IF p.payload.t = "dict" THEN p.payload.f[k] ELSE None)]

NonEmptyStr(v) == v.t = "str" /\ v.v # <<>>
NonBlankStr(v) == v.t = "str" /\ \E i \in 1..Len(v.v) : v.v[i] \notin {" ", "\n"}

\* C13 as stated: the text is the first probed value that is a non-empty
\* string, and "" when there is none.
C13_FirstNonEmptyString ==
    ret.done =>
        LET vs == Probed(args)
        IN  \/ \E j \in 1..Len(vs) :
                  /\ NonEmptyStr(vs[j]) /\ ret.val = vs[j].v
                  /\ \A i \in 1..(j - 1) : ~NonEmptyStr(vs[i])
            \/ ret.val = <<>> /\ \A j \in 1..Len(vs) : ~NonEmptyStr(vs[j])

\* C13: the text is the first probed value (text, message, body, MESSAGE,
\* MESSAGE-TEXT, message-text, content at the top level, then the same keys in
\* "data", then in "payload") that is a string with a character other than
\* whitespace, returned as it is; and "" when there is none.
C13_FirstNonBlankString ==
    ret.done =>
        LET vs == Probed(args)
        IN  \/ \E j \in 1..Len(vs) :
                  /\ NonBlankStr(vs[j]) /\ ret.val = vs[j].v
                  /\ \A i \in 1..(j - 1) : ~NonBlankStr(vs[i])
            \/ ret.val = <<>> /\ \A j \in 1..Len(vs) : ~NonBlankStr(vs[j])

\* A text in "data" has been returned although "payload" holds one too, the
\* top level holding none.
C13_Witness ==
    /\ ret.done /\ ret.val = TextB
    /\ args.data.t = "dict" /\ args.payload.t = "dict"
    /\ args.payload.f["message"] = Str(TextC)
    /\ \A k \in CandidateSet : ~NonBlankStr(args.top[k])

IsModels(e) == e.ep = "models"

\* C14: between any two chat calls of a request (the first primary attempt,
\* which has failed by raising or by giving no text, and the retry) the
\* catalog is queried, so the retry carries a model id resolved after the
\* failure.
C14_RetryReResolves ==
    \A r \in Threads :
        LET calls == th[r].calls
        IN  \A i, j \in 1..Len(calls) :
                (i < j /\ IsChat(calls[i]) /\ IsChat(calls[j])) =>
                    \E k \in (i + 1)..(j - 1) : IsModels(calls[k])

\* C15: the outbound calls of a request are a catalog query, a completion
\* call, a catalog query, a completion call, and so on: one resolution before
\* each completion call and no other; so at most 3 catalog queries, 3
\* completion calls and 6 outbound calls, and as many queries as completion
\* calls once the client has returned.
C15_OneResolutionPerCall ==
    \A r \in Threads :
        LET calls == th[r].calls
        IN  /\ \A i \in 1..Len(calls) : IsModels(calls[i]) <=> i % 2 = 1
            /\ Len(SelectSeq(calls, IsModels)) <= 3
            /\ Len(SelectSeq(calls, IsPost)) <= 3
            /\ Len(calls) <= 6
            /\ AfterClient(r) => Len(SelectSeq(calls, IsModels)) = Len(SelectSeq(calls, IsPost))

\* C16: every request that has been received ends, in one of the terminal
\* states: rejected, no-op (no text, or an exception caught by auto_reply),
\* no reply, success; the first three with an empty reply and no conversation
\* changed, and only the last two after outbound calls.  A call that raises
\* (a timeout among them) is followed by the retry or the fallback, and no
\* request makes more than two chat calls and one completions call.
C16_EveryRequestEnds ==
    /\ \A r \in Threads : (th[r].pc # "idle") ~> (th[r].pc = "done")
    /\ [](\A r \in Threads :
            LET chats == SelectSeq(th[r].calls, IsChat)
                completions == SelectSeq(th[r].calls, IsCompletions)
            IN  /\ Len(chats) <= 2 /\ Len(completions) <= 1
                /\ (th[r].calls # <<>> /\ th[r].calls[Len(th[r].calls)].exc) =>
                      th[r].pc \in {"refresh", "returned", "done"}
                /\ th[r].pc = "done" =>
                      /\ th[r].response.status = 200
                      /\ \/ /\ th[r].outcome \in {"reject", "noop", "error"}
                            /\ th[r].calls = <<>> /\ ~touched[r] /\ th[r].response.message = <<>>
                         \/ /\ th[r].outcome = "noreply"
                            /\ th[r].calls # <<>> /\ ~touched[r] /\ th[r].response.message = <<>>
                         \/ /\ th[r].outcome = "success"
                            /\ th[r].calls # <<>> /\ touched[r] /\ th[r].response.message # <<>>)

\* A request has ended without a reply, each of its three completion calls
\* having raised.
C16_Witness ==
    \E r \in Threads :
        LET posts == SelectSeq(th[r].calls, IsPost)
        IN  /\ th[r].pc = "done" /\ th[r].outcome = "noreply"
            /\ Len(posts) = 3
            /\ \A i \in 1..3 : posts[i].exc

\* C17: a step of a request of sender A leaves the entry of every other
\* sender as it is (none is changed, made or removed); the context built for
\* A holds, before the new user turn, only turns stored for A; and no turn is
\* stored for two senders, each turn being of one request.
Turns(conv) == {conv[i] : i \in 1..Len(conv)}

C17_SendersIndependent ==
    [][/\ \A r \in Threads :
             th'[r] # th[r] =>
                 LET A == IF th[r].pc = "idle" THEN th'[r].sender_jid ELSE th[r].sender_jid
                     stored == IF A \in DOMAIN conversations THEN conversations[A] ELSE <<>>
                     context == th'[r].messages
                 IN  /\ \A B \in (DOMAIN conversations \cup DOMAIN conversations') \ {A} :
                           /\ B \in DOMAIN conversations /\ B \in DOMAIN conversations'
                           /\ conversations'[B] = conversations[B]
                     /\ (th[r].pc = "build" /\ th'[r].pc = "resolve") =>
                           \A i \in 1..(Len(context) - 1) : context[i] \in Turns(stored)
       /\ \A A, B \in DOMAIN conversations' :
             A # B => Turns(conversations'[A]) \cap Turns(conversations'[B]) = {}]_vars

\* Requests of two senders have been served at the same time and both have
\* ended in success: each sender's entry holds the two turns of its request.
C17_Witness ==
    \E r, q \in Threads :
        /\ th[r].pc = "done" /\ th[r].outcome = "success" /\ th[r].sender_jid = "u1"
        /\ th[q].pc = "done" /\ th[q].outcome = "success" /\ th[q].sender_jid = "u2"
        /\ Turns(conversations["u1"]) = {Turn("user", UserText(th[r].n)),
                                         Turn("assistant", ReplyText(th[r].n))}
        /\ Turns(conversations["u2"]) = {Turn("user", UserText(th[q].n)),
                                         Turn("assistant", ReplyText(th[q].n))}

\* The last eight (or fewer) of the messages, and lines each ended by a newline.
LastEight(ms) == IF Len(ms) <= 8 THEN ms ELSE [i \in 1..8 |-> ms[Len(ms) - 8 + i]]
RolePrefix(role) == IF role = "user" THEN <<"U", "s", "e", "r", ":", " ">>
                    ELSE IF role = "assistant"
                      THEN <<"A", "s", "s", "i", "s", "t", "a", "n", "t", ":", " ">>
                    ELSE <<>>
RECURSIVE EachOnALine(_)
EachOnALine(ls) == IF ls = <<>> THEN <<>> ELSE Head(ls) \o <<"\n">> \o EachOnALine(Tail(ls))

\* C18 as stated: the prompt is, for each of the last 8 turns whose content is
\* not empty, in order, the line "User: {content}", "Assistant: {content}" or
\* "{content}" by role, and then the line "Assistant:".
HasContent(m) == m.content # <<>>
C18_PromptAsStated ==
    ret.done =>
        LET kept == SelectSeq(LastEight(args), HasContent)
            lines == [i \in 1..Len(kept) |-> RolePrefix(kept[i].role) \o kept[i].content]
        IN  ret.val = EachOnALine(lines) \o <<"A", "s", "s", "i", "s", "t", "a", "n", "t", ":">>

\* C18: the prompt is, for each of the last 8 turns whose content has a
\* character other than whitespace, in order, the line "User: {content}",
\* "Assistant: {content}" or "{content}" by role, the content without its
\* leading and trailing whitespace; and then the line "Assistant:", which is
\* the whole prompt when no turn gives a line.
HasNonBlankContent(m) == \E i \in 1..Len(m.content) : m.content[i] \notin {" ", "\n"}
C18_PromptLinearization ==
    ret.done =>
        LET kept == SelectSeq(LastEight(args), HasNonBlankContent)
            lines == [i \in 1..Len(kept) |-> RolePrefix(kept[i].role) \o Strip(kept[i].content)]
        IN  /\ ret.val = EachOnALine(lines) \o <<"A", "s", "s", "i", "s", "t", "a", "n", "t", ":">>
            /\ kept = <<>> => ret.val = <<"A", "s", "s", "i", "s", "t", "a", "n", "t", ":">>

\* A prompt has been made of ten messages, of which the first two are left
\* out and one of the last eight is skipped for having no content.
C18_Witness ==
    /\ ret.done /\ Len(args) = 10
    /\ \E i \in 3..10 : args[i].content = <<>>
    /\ Len(SelectSeq(ret.val, LAMBDA c : c = "\n")) = 7

\* t is s without its leading and trailing whitespace.
IsTrimOf(t, s) ==
    /\ t = <<>> \/ (t[1] \notin {" ", "\n"} /\ t[Len(t)] \notin {" ", "\n"})
    /\ \E i, j \in 0..Len(s) :
          /\ i + j <= Len(s)
          /\ t = SubSeq(s, i + 1, Len(s) - j)
          /\ \A k \in (1..i) \cup ((Len(s) - j + 1)..Len(s)) : s[k] \in {" ", "\n"}

\* What a response body holds in each of the three shapes, in the order of the
\* claim: choices[0].message.content, choices[0].text, content (None where the
\* body has no such place).
Shapes(body) ==
    LET first == IF body.t = "dict" /\ body.choices.t = "list" /\ body.choices.ch0.t = "dict"
                 THEN body.choices.ch0 ELSE NoChoice
    IN  << IF first.message.t = "dict" THEN first.message.content ELSE None,
           first.text,
           IF body.t = "dict" THEN body.content ELSE None >>

\* C19: _extract_ai_text never raises; it returns the text of the first of the
\* three shapes (chat, completion, top-level content) that holds a string,
\* without its leading and trailing whitespace; and "" when none holds one or
\* the body is no object.
C19_ExtractionOrder ==
    ret.done =>
        /\ ~ret.raised
        /\ LET found == Shapes(args)
           IN  \/ \E j \in 1..3 :
                     /\ found[j].t = "str" /\ IsTrimOf(ret.val, found[j].v)
                     /\ \A i \in 1..(j - 1) : found[i].t # "str"
               \/ ret.val = <<>> /\ \A j \in 1..3 : found[j].t # "str"

\* A body that holds a text in all three shapes has given the text of its
\* chat shape, without the whitespace around it.
C19_Witness ==
    /\ ret.done /\ ret.val = TextA
    /\ \A j \in 1..3 : Shapes(args)[j].t = "str" /\ Shapes(args)[j].v # <<>>
    /\ Shapes(args)[1].v # TextA

\* C20: when requests are served one at a time, every stored sequence that no
\* request is in the middle of extending is not empty, has even length,
\* alternates user, assistant from a user turn, and holds no empty content;
\* while the one request in progress is between its two appends its sender's
\* sequence is such a sequence followed by its user turn; and a request that
\* is rejected, carries no text, gets no reply or raises changes no entry.
Exchanges(conv) ==
    /\ Len(conv) % 2 = 0
    /\ \A i \in 1..Len(conv) :
          /\ conv[i].role = IF i % 2 = 1 THEN "user" ELSE "assistant"
          /\ conv[i].content # <<>>

C20_SerialStoreWellFormed ==
    /\ \A jid \in DOMAIN conversations :
          LET conv == conversations[jid]
              making == {r \in Threads : th[r].sender_jid = jid /\ th[r].pc = "append_user"}
              between == {r \in Threads : th[r].sender_jid = jid /\ th[r].pc = "append_assistant"}
          IN  /\ (making = {} /\ between = {}) => (conv # <<>> /\ Exchanges(conv))
              /\ making # {} => Exchanges(conv)
              /\ \A r \in between :
                    /\ conv # <<>>
                    /\ conv[Len(conv)] = [role |-> "user", content |-> th[r].message_text]
                    /\ Exchanges(SubSeq(conv, 1, Len(conv) - 1))
    /\ \A r \in Threads :
          th[r].outcome \in {"reject", "noop", "noreply", "error"} => ~touched[r]

\* Three requests have been served, one after the other: two exchanges of one
\* sender are stored, and a request that got no reply has left no entry.
C20_Witness ==
    /\ nreq = 3
    /\ \E r \in Threads : th[r].pc = "done" /\ th[r].outcome = "noreply" /\ th[r].sender_jid = "u2"
    /\ DOMAIN conversations = {"u1"}
    /\ Len(conversations["u1"]) = 4

====
